---- MODULE Spec2Model ----
(***************************************************************************)
(* Model of rust-particles (src/src/main.rs): a frame thread that runs the *)
(* collision pass, GravityHandler::run, ExplodingParticles::update and the *)
(* two draws over shared Arc<Mutex<Particle>> handles, and the tokio       *)
(* expiry tasks (a timer task and a receiver task per oneshot channel)     *)
(* that set Particle.active to false.                                      *)
(*                                                                         *)
(* Numbers: an f64 is modelled as an integer count of thousandths          *)
(* (1.0 = 1000, 0.098 = 98); every operation on them in the source is an   *)
(* addition or a comparison.  Durations are milliseconds.                  *)
(* rand::thread_rng() is modelled as a linear congruential generator whose *)
(* seed is chosen in Init; each gen()/gen_range() call consumes one value. *)
(***************************************************************************)
EXTENDS Integers, Sequences, FiniteSets, TLC

VARIABLES
    rng,        \* state of rand::thread_rng() on the main thread
    parts,      \* heap of Particle values; a handle (Arc<Mutex<Particle>>) is an index
    tasks,      \* expiry task pairs spawned with tokio::spawn, one per oneshot channel
    entities,   \* GravityHandler.entities   (sequence of handles)
    particles,  \* ExplodingParticles.particles (sequence of handles)
    origin,     \* ExplodingParticles.origin
    strength,   \* ExplodingParticles.strength
    pc,         \* position of the main thread
    idx,        \* index of the iterator of the loop the main thread is in
    sub,        \* position inside one iteration: "lock", "body", "body2"
    kept,       \* Vec::retain in progress: the handles kept so far
    guards,     \* handles whose MutexGuard is alive on the main thread
    sink,       \* what the draws of the current frame handed to the renderer
    spawned,    \* iterations done of main's spawn loop
    triggers,   \* button presses handled
    frames,     \* frames completed
    order,      \* history: phases entered in the current frame, in order
    snap,       \* history: handles inactive when run() / update() was last entered
    entry,      \* history: the particles as they were when the run() in progress was entered
    poison,     \* handles whose mutex is poisoned
    unit        \* the particle and the solid of the single-call harness

vars == <<rng, parts, tasks, entities, particles, origin, strength, pc, idx, sub,
          kept, guards, sink, spawned, triggers, frames, order, snap, entry, poison,
          unit>>

-----------------------------------------------------------------------------
(* Bounds of the model *)
MaxSeed == 1
MaxSpawn == 1
MaxBurst == 1
MaxTriggers == 2
MaxFrames == 2
RngMod == 16
RngLevels == 4

(* Constants of the program *)
SpawnCount == 10
BurstCount == 50
Gravity == 98
ParticleRadius == 1000
Threshold == 2000
SolidRadius == 10000
FadingMs == 500
SwarmDelayMs == 5000
SpawnArea == 500000
MainStrength == 2000

-----------------------------------------------------------------------------
(* rand *)
RngNext(r) == (r * 5 + 3) % RngMod

\* k draws in a row take the state x to (a * x + c) % RngMod: <<a, c>>, by
\* repeated squaring
RECURSIVE RngJump(_)
RngJump(k) ==
    IF k = 0 THEN <<1, 0>>
    ELSE IF k % 2 = 0
         THEN LET j == RngJump(k \div 2)
              IN <<(j[1] * j[1]) % RngMod, (j[1] * j[2] + j[2]) % RngMod>>
         ELSE LET j == RngJump(k - 1)
              IN <<(5 * j[1]) % RngMod, (5 * j[2] + 3) % RngMod>>

\* the state after k draws
RngAt(r, k) == LET j == RngJump(k) IN (j[1] * r + j[2]) % RngMod

\* gen::<f64>() * scale: a value of [0, scale)
Gen(r, scale) == (scale * ((r * RngLevels) \div RngMod)) \div RngLevels

\* gen_range(lo..hi): a value of [lo, hi)
GenRange(r, lo, hi) == lo + Gen(r, hi - lo)

\* gen_range panics on an empty range
EmptyRange(lo, hi) == ~(lo < hi)

\* calls of Particle::push before one Particle::run, and calls of
\* Particle::run, of the specification of Particle and Solid alone
MaxPush == 2
MaxRuns == 2

-----------------------------------------------------------------------------
(* Particle *)
ParticleNew(point, r) ==
    [point |-> point,
     velocity |-> <<0, 0>>,
     acceleration |-> <<0, 0>>,
     active |-> TRUE,
     radius |-> ParticleRadius,
     color |-> <<Gen(r, 1000), Gen(RngAt(r, 1), 1000), Gen(RngAt(r, 2), 1000), 1000>>]

with_velocity(p, velocity) == [p EXCEPT !.velocity = velocity]

push(p, a) ==
    [p EXCEPT !.acceleration = <<p.acceleration[1] + a[1], p.acceleration[2] + a[2]>>]

\* mutant: the point advances by the velocity of before the step
run_old_velocity(p) ==
    [p EXCEPT !.velocity = <<p.velocity[1] + p.acceleration[1],
                             p.velocity[2] + p.acceleration[2]>>,
              !.point = <<p.point[1] + p.velocity[1], p.point[2] + p.velocity[2]>>,
              !.acceleration = <<0, 0>>]

run(p) ==
    LET v == <<p.velocity[1] + p.acceleration[1], p.velocity[2] + p.acceleration[2]>>
    IN [p EXCEPT !.velocity = v,
                 !.point = <<p.point[1] + v[1], p.point[2] + v[2]>>,
                 !.acceleration = <<0, 0>>]

get_geometry(p) ==
    <<p.point[1], p.point[2], p.point[1] + p.radius, p.point[2] + p.radius>>

-----------------------------------------------------------------------------
(* Solid *)
SolidNew(geometry, radius) ==
    [geometry |-> geometry, radius |-> radius, threshold |-> Threshold]

\* mutant: the vertical check forgets the threshold
is_colliding_no_threshold(s, g) ==
    LET x_check == g[1] >= s.geometry[1] /\ g[3] <= s.geometry[3]
        y_check == g[2] >= s.geometry[2] /\ g[4] <= s.geometry[4] + s.radius
    IN x_check /\ y_check

is_colliding(s, g) ==
    LET x_check == g[1] >= s.geometry[1] /\ g[3] <= s.geometry[3]
        y_check == g[2] >= s.geometry[2] - s.threshold
                   /\ g[4] <= s.geometry[4] + s.radius
    IN x_check /\ y_check

solid == SolidNew(<<221000, 420000, 500000, 420000>>, SolidRadius)
sol2 == SolidNew(<<45000, 45000, 240000, 240000>>, SolidRadius)

-----------------------------------------------------------------------------
(* Locks: a particle's mutex is held by the main thread (guards) or by the *)
(* receiver task that is between lock() and the drop of its guard.         *)
HeldByTask(h) == \E t \in 1..Len(tasks) : tasks[t].st = "locked" /\ tasks[t].part = h

Locked(h) == h \in guards \/ HeldByTask(h)

Handles == 1..Len(parts)

Range(s) == {s[i] : i \in 1..Len(s)}

Inactive == {h \in Handles : ~parts[h].active}

-----------------------------------------------------------------------------
\* the seeds of thread_rng the model starts from, spread over the period
Seeds == {(4 * k) % RngMod : k \in 0..MaxSeed}

InitCommon ==
    /\ rng \in Seeds
    /\ parts = <<>>
    /\ tasks = <<>>
    /\ entities = <<>>
    /\ particles = <<>>
    /\ pc = "spawn"
    /\ idx = 1
    /\ sub = "lock"
    /\ kept = <<>>
    /\ guards = {}
    /\ sink = <<>>
    /\ spawned = 0
    /\ triggers = 0
    /\ frames = 0
    /\ order = <<>>
    /\ snap = [run |-> {}, update |-> {}]
    /\ entry = <<>>
    /\ poison = {}

\* main: ExplodingParticles::new().with_strength(2.0)
Init ==
    /\ InitCommon
    /\ unit = <<>>
    /\ origin = <<0, 0>>
    /\ strength = MainStrength

-----------------------------------------------------------------------------
(* GravityHandler::spawn_one, called from main's spawn loop with a random  *)
(* point.  The timer task and the receiver task are one entry of tasks.    *)
spawn_one(point, r) ==
    LET new == with_velocity(ParticleNew(point, r),
                             <<GenRange(RngAt(r, 3), -1000, 1000),
                               GenRange(RngAt(r, 4), -1000, 1000)>>)
        delay == Gen(RngAt(r, 5), SwarmDelayMs)
        h == Len(parts) + 1
    IN /\ parts' = Append(parts, new)
       /\ entities' = Append(entities, h)
       /\ tasks' = Append(tasks, [part |-> h, delay |-> delay, st |-> "sleep", by |-> "spawn_one"])
       /\ rng' = RngAt(r, 6)

MainSpawn(n) ==
    /\ pc = "spawn"
    /\ spawned < n
    /\ spawn_one(<<Gen(rng, SpawnArea), Gen(RngAt(rng, 1), SpawnArea)>>, RngAt(rng, 2))
    /\ spawned' = spawned + 1
    /\ UNCHANGED <<particles, origin, strength, pc, idx, sub, kept, guards, sink,
                   triggers, frames, order, snap,
                   entry, poison, unit>>

MainSpawnDone(n) ==
    /\ pc = "spawn"
    /\ spawned = n
    /\ pc' = "events"
    /\ UNCHANGED <<rng, parts, tasks, entities, particles, origin, strength, idx, sub,
                   kept, guards, sink, spawned, triggers, frames, order, snap,
                   entry, poison, unit>>

-----------------------------------------------------------------------------
(* ExplodingParticles::trigger.  The first loop creates the particles; the *)
(* second loop visits every handle of self.particles and spawns a timer    *)
(* task and a receiver task for it.                                        *)

\* thread_rng after i iterations of the first loop (three draws for the
\* colour and two for the velocity in each)
trigger_rng(i, r) == RngAt(r, 5 * i)

\* the particle the i-th iteration of the first loop creates
trigger_particle(i) ==
    LET r == trigger_rng(i - 1, rng)
    IN with_velocity(ParticleNew(origin, r),
                     <<GenRange(RngAt(r, 3), -strength, strength),
                       GenRange(RngAt(r, 4), -strength, strength)>>)

\* mutant: the creation loop runs one iteration short
trigger_create_short(n) == [i \in 1..(n - 1) |-> trigger_particle(i)]

trigger_create(n) == [i \in 1..n |-> trigger_particle(i)]

trigger_arm(ps) ==
    [i \in 1..Len(ps) |-> [part |-> ps[i], delay |-> FadingMs, st |-> "sleep", by |-> "trigger"]]

trigger(n) ==
    LET new == trigger_create(n)
    IN /\ parts' = parts \o new
       /\ particles' = particles \o [i \in 1..Len(new) |-> Len(parts) + i]
       /\ rng' = trigger_rng(Len(new), rng)
       /\ tasks' = tasks \o trigger_arm(particles')

\* main: a button press calls explosion.trigger() and then pushes every handle
\* of explosion.particles onto handler.entities
ButtonPress(n) ==
    /\ pc = "events"
    /\ triggers < MaxTriggers
    /\ ~EmptyRange(-strength, strength)
    /\ trigger(n)
    /\ entities' = entities \o particles'
    /\ triggers' = triggers + 1
    /\ UNCHANGED <<origin, strength, pc, idx, sub, kept, guards, sink, spawned,
                   frames, order, snap,
                   entry, poison, unit>>

\* gen_range(-strength..strength) panics in the first iteration, after
\* Particle::new has drawn the colour
ButtonPressPanic(n) ==
    /\ pc = "events"
    /\ triggers < MaxTriggers
    /\ n > 0
    /\ EmptyRange(-strength, strength)
    /\ rng' = RngAt(rng, 3)
    /\ pc' = "panicked"
    /\ UNCHANGED <<parts, tasks, entities, particles, origin, strength, idx, sub, kept,
                   guards, sink, spawned, triggers, frames, order, snap,
                   entry, poison, unit>>

-----------------------------------------------------------------------------
(* One frame: the closure passed to window.draw_2d.  Each loop over the    *)
(* handles is a phase; an iteration locks the handle, works on the         *)
(* particle and drops the guard.                                           *)
LoopPhases == {"collide", "retain", "gravity", "integrate", "prune", "hdraw", "edraw"}

\* mutant: the draws are issued before explosion.update()
NextPhaseDrawEarly(ph) ==
    CASE ph = "collide" -> "retain"
      [] ph = "retain" -> "gravity"
      [] ph = "gravity" -> "hdraw"
      [] ph = "hdraw" -> "edraw"
      [] ph = "edraw" -> "integrate"
      [] ph = "integrate" -> "prune"
      [] ph = "prune" -> "events"

\* statement order of the closure, of GravityHandler::run and of
\* ExplodingParticles::update
NextPhase(ph) ==
    CASE ph = "collide" -> "retain"
      [] ph = "retain" -> "gravity"
      [] ph = "gravity" -> "integrate"
      [] ph = "integrate" -> "prune"
      [] ph = "prune" -> "hdraw"
      [] ph = "hdraw" -> "edraw"
      [] ph = "edraw" -> "events"

\* the collection a phase iterates
Coll(ph) == IF ph \in {"collide", "retain", "gravity", "hdraw"} THEN entities ELSE particles

InLoop == pc \in LoopPhases /\ idx <= Len(Coll(pc))

Cur == Coll(pc)[idx]

BeginFrame ==
    /\ pc = "events"
    /\ frames < MaxFrames
    /\ pc' = "collide"
    /\ idx' = 1
    /\ sub' = "lock"
    /\ sink' = <<>>
    /\ order' = <<"collide">>
    /\ UNCHANGED <<rng, parts, tasks, entities, particles, origin, strength, kept,
                   guards, spawned, triggers, frames, snap,
                   entry, poison, unit>>

\* handle.lock().unwrap() on the main thread: blocks while the mutex is held
Lock ==
    /\ InLoop
    /\ sub = "lock"
    /\ ~Locked(Cur)
    /\ Cur \notin poison
    /\ guards' = guards \cup {Cur}
    /\ sub' = "body"
    /\ UNCHANGED <<rng, parts, tasks, entities, particles, origin, strength, pc, idx,
                   kept, sink, spawned, triggers, frames, order, snap,
                   entry, poison, unit>>

\* the guard of the current iteration is dropped and the iterator advances
Release == guards \ {Cur}

\* mutant: the guard of the collision pass outlives its iteration
CollideBodyKeepsGuard ==
    /\ InLoop /\ pc = "collide" /\ sub = "body"
    /\ LET inner == parts[Cur]
           geometry == get_geometry(inner)
           vel == inner.velocity
           c1 == is_colliding(solid, geometry)
           c2 == is_colliding(sol2, geometry)
           p1 == IF c1 THEN push(inner, <<0, -vel[2]>>) ELSE inner
           p2 == IF c2 THEN push(p1, <<0, -vel[2]>>) ELSE p1
       IN /\ parts' = [parts EXCEPT ![Cur] = p2]
          /\ rng' = IF c1 THEN RngNext(rng) ELSE rng
    /\ idx' = idx + 1
    /\ sub' = "lock"
    /\ UNCHANGED <<tasks, entities, particles, origin, strength, pc, kept, sink,
                   spawned, triggers, frames, order, snap, guards,
                   entry, poison, unit>>

\* main: the collision pass over handler.entities
CollideBody ==
    /\ InLoop /\ pc = "collide" /\ sub = "body"
    /\ LET inner == parts[Cur]
           geometry == get_geometry(inner)
           vel == inner.velocity
           c1 == is_colliding(solid, geometry)
           c2 == is_colliding(sol2, geometry)
           p1 == IF c1 THEN push(inner, <<0, -vel[2]>>) ELSE inner
           p2 == IF c2 THEN push(p1, <<0, -vel[2]>>) ELSE p1
       IN /\ parts' = [parts EXCEPT ![Cur] = p2]
          /\ rng' = IF c1 THEN RngNext(rng) ELSE rng
    /\ guards' = Release
    /\ idx' = idx + 1
    /\ sub' = "lock"
    /\ UNCHANGED <<tasks, entities, particles, origin, strength, pc, kept, sink,
                   spawned, triggers, frames, order, snap,
                   entry, poison, unit>>

\* mutant: the retain predicate keeps every handle
retain_keep_all(p) == TRUE

\* the predicate of Vec::retain, in GravityHandler::run and in
\* ExplodingParticles::update
retain_keep(p) == p.active

\* mutant: retain puts a kept handle in front of the handles kept so far
RetainBodyPrepends ==
    /\ InLoop /\ pc \in {"retain", "prune"} /\ sub = "body"
    /\ kept' = IF retain_keep(parts[Cur]) THEN <<Cur>> \o kept ELSE kept
    /\ guards' = Release
    /\ idx' = idx + 1
    /\ sub' = "lock"
    /\ UNCHANGED <<rng, parts, tasks, entities, particles, origin, strength, pc, sink,
                   spawned, triggers, frames, order, snap,
                   entry, poison, unit>>

\* mutant: retain reads the flag and keeps the handle whatever it read
RetainBodyIgnoresFlag ==
    /\ InLoop /\ pc \in {"retain", "prune"} /\ sub = "body"
    /\ kept' = Append(kept, Cur)
    /\ guards' = Release
    /\ idx' = idx + 1
    /\ sub' = "lock"
    /\ UNCHANGED <<rng, parts, tasks, entities, particles, origin, strength, pc, sink,
                   spawned, triggers, frames, order, snap,
                   entry, poison, unit>>

RetainBody ==
    /\ InLoop /\ pc \in {"retain", "prune"} /\ sub = "body"
    /\ kept' = IF retain_keep(parts[Cur]) THEN Append(kept, Cur) ELSE kept
    /\ guards' = Release
    /\ idx' = idx + 1
    /\ sub' = "lock"
    /\ UNCHANGED <<rng, parts, tasks, entities, particles, origin, strength, pc, sink,
                   spawned, triggers, frames, order, snap,
                   entry, poison, unit>>

\* mutant: the closure integrates without the gravity push
GravityPushSkipped ==
    /\ InLoop /\ pc = "gravity" /\ sub = "body"
    /\ sub' = "body2"
    /\ UNCHANGED <<rng, parts, tasks, entities, particles, origin, strength, pc, idx, kept,
                   guards, sink, spawned, triggers, frames, order, snap,
                   entry, poison, unit>>

\* GravityHandler::run: ent.push([0.0, 0.098])
GravityPush ==
    /\ InLoop /\ pc = "gravity" /\ sub = "body"
    /\ parts' = [parts EXCEPT ![Cur] = push(parts[Cur], <<0, Gravity>>)]
    /\ sub' = "body2"
    /\ UNCHANGED <<rng, tasks, entities, particles, origin, strength, pc, idx, kept,
                   guards, sink, spawned, triggers, frames, order, snap,
                   entry, poison, unit>>

\* GravityHandler::run: ent.run(), end of the closure
GravityRun ==
    /\ InLoop /\ pc = "gravity" /\ sub = "body2"
    /\ parts' = [parts EXCEPT ![Cur] = run(parts[Cur])]
    /\ guards' = Release
    /\ idx' = idx + 1
    /\ sub' = "lock"
    /\ UNCHANGED <<rng, tasks, entities, particles, origin, strength, pc, kept, sink,
                   spawned, triggers, frames, order, snap,
                   entry, poison, unit>>

\* ExplodingParticles::update: rc.lock().unwrap().run()
IntegrateBody ==
    /\ InLoop /\ pc = "integrate" /\ sub = "body"
    /\ parts' = [parts EXCEPT ![Cur] = run(parts[Cur])]
    /\ guards' = Release
    /\ idx' = idx + 1
    /\ sub' = "lock"
    /\ UNCHANGED <<rng, tasks, entities, particles, origin, strength, pc, kept, sink,
                   spawned, triggers, frames, order, snap,
                   entry, poison, unit>>

\* GravityHandler::draw and ExplodingParticles::draw: Particle::draw hands
\* the geometry and the colour to the renderer
DrawBody ==
    /\ InLoop /\ pc \in {"hdraw", "edraw"} /\ sub = "body"
    /\ sink' = Append(sink, [by |-> pc, h |-> Cur,
                             geometry |-> get_geometry(parts[Cur]),
                             color |-> parts[Cur].color])
    /\ guards' = Release
    /\ idx' = idx + 1
    /\ sub' = "lock"
    /\ UNCHANGED <<rng, parts, tasks, entities, particles, origin, strength, pc, kept,
                   spawned, triggers, frames, order, snap,
                   entry, poison, unit>>

\* end of a loop: retain leaves the kept handles in the Vec, and the main
\* thread goes on to the next statement
EndPhase ==
    /\ pc \in LoopPhases
    /\ idx > Len(Coll(pc))
    /\ pc' = NextPhase(pc)
    /\ idx' = 1
    /\ entities' = IF pc = "retain" THEN kept ELSE entities
    /\ particles' = IF pc = "prune" THEN kept ELSE particles
    /\ kept' = <<>>
    /\ frames' = IF pc = "edraw" THEN frames + 1 ELSE frames
    /\ order' = IF pc = "edraw" THEN order ELSE Append(order, NextPhase(pc))
    /\ snap' = [run |-> IF pc = "collide" THEN Inactive ELSE snap.run,
                update |-> IF pc = "gravity" THEN Inactive ELSE snap.update]
    /\ entry' = IF pc = "collide" THEN parts ELSE IF pc = "gravity" THEN <<>> ELSE entry
    /\ UNCHANGED <<rng, parts, tasks, origin, strength, sub, guards, sink, spawned,
                   triggers, poison, unit>>

-----------------------------------------------------------------------------
(* Expiry: the timer task sleeps and sends the handle over the oneshot     *)
(* channel; the receiver task awaits it, locks the particle and clears     *)
(* active.                                                                 *)
Running == pc # "panicked"

\* mutant: the timer task never sends
TimerFireLost(t) ==
    /\ Running
    /\ tasks[t].st = "sleep"
    /\ tasks' = [tasks EXCEPT ![t].st = "done"]
    /\ UNCHANGED <<rng, parts, entities, particles, origin, strength, pc, idx, sub,
                   kept, guards, sink, spawned, triggers, frames, order, snap,
                   entry, poison, unit>>

TimerFire(t) ==
    /\ Running
    /\ tasks[t].st = "sleep"
    /\ tasks' = [tasks EXCEPT ![t].st = "sent"]
    /\ UNCHANGED <<rng, parts, entities, particles, origin, strength, pc, idx, sub,
                   kept, guards, sink, spawned, triggers, frames, order, snap,
                   entry, poison, unit>>

\* mutant: the receiver gives up on a particle that no collection holds
RecvLockRegistered(t) ==
    /\ Running
    /\ tasks[t].st = "sent"
    /\ ~Locked(tasks[t].part)
    /\ tasks[t].part \in Range(entities) \cup Range(particles)
    /\ tasks' = [tasks EXCEPT ![t].st = "locked"]
    /\ UNCHANGED <<rng, parts, entities, particles, origin, strength, pc, idx, sub,
                   kept, guards, sink, spawned, triggers, frames, order, snap,
                   entry, poison, unit>>

\* mutant: the receiver goes on without waiting for the mutex
RecvLockNoWait(t) ==
    /\ Running
    /\ tasks[t].st = "sent"
    /\ tasks' = [tasks EXCEPT ![t].st = "locked"]
    /\ UNCHANGED <<rng, parts, entities, particles, origin, strength, pc, idx, sub,
                   kept, guards, sink, spawned, triggers, frames, order, snap,
                   entry, poison, unit>>

RecvLock(t) ==
    /\ Running
    /\ tasks[t].st = "sent"
    /\ ~Locked(tasks[t].part)
    /\ tasks[t].part \notin poison
    /\ tasks' = [tasks EXCEPT ![t].st = "locked"]
    /\ UNCHANGED <<rng, parts, entities, particles, origin, strength, pc, idx, sub,
                   kept, guards, sink, spawned, triggers, frames, order, snap,
                   entry, poison, unit>>

\* mutant: the receiver toggles the flag
RecvFlipToggle(t) ==
    /\ Running
    /\ tasks[t].st = "locked"
    /\ parts' = [parts EXCEPT ![tasks[t].part].active = ~parts[tasks[t].part].active]
    /\ tasks' = [tasks EXCEPT ![t].st = "done"]
    /\ UNCHANGED <<rng, entities, particles, origin, strength, pc, idx, sub, kept,
                   guards, sink, spawned, triggers, frames, order, snap,
                   entry, poison, unit>>

RecvFlip(t) ==
    /\ Running
    /\ tasks[t].st = "locked"
    /\ parts' = [parts EXCEPT ![tasks[t].part].active = FALSE]
    /\ tasks' = [tasks EXCEPT ![t].st = "done"]
    /\ UNCHANGED <<rng, entities, particles, origin, strength, pc, idx, sub, kept,
                   guards, sink, spawned, triggers, frames, order, snap,
                   entry, poison, unit>>

Timer == \E t \in 1..Len(tasks) : TimerFire(t)
ReceiverLock == \E t \in 1..Len(tasks) : RecvLock(t)
ReceiverFlip == \E t \in 1..Len(tasks) : RecvFlip(t)

FrameStep ==
    \/ Lock
    \/ CollideBody
    \/ RetainBody
    \/ GravityPush
    \/ GravityRun
    \/ IntegrateBody
    \/ DrawBody
    \/ EndPhase

-----------------------------------------------------------------------------
(* main with every thread interleaved.  The spawn loop (10 iterations in   *)
(* the source) and the creation loop of trigger (50) run MaxSpawn and      *)
(* MaxBurst iterations here; SpecBurst below runs them at their real       *)
(* counts.  main sets the strength to 2.0, so trigger does not panic.      *)
Next ==
    \/ MainSpawn(MaxSpawn)
    \/ MainSpawnDone(MaxSpawn)
    \/ ButtonPress(MaxBurst)
    \/ BeginFrame
    \/ Lock
    \/ CollideBody
    \/ RetainBody
    \/ GravityPush
    \/ GravityRun
    \/ IntegrateBody
    \/ DrawBody
    \/ EndPhase
    \/ Timer
    \/ ReceiverLock
    \/ ReceiverFlip

Spec == Init /\ [][Next]_vars

\* the first seed only
InitFair == Init /\ rng = 0

\* The threads are scheduled fairly: the main thread goes on inside a frame,
\* an elapsed timer sends, a receiver blocked on a mutex gets it when it is
\* released again and again, and a receiver holding it writes and drops it.
FairSpec ==
    /\ InitFair
    /\ [][Next]_vars
    /\ WF_vars(FrameStep)
    /\ WF_vars(Timer)
    /\ SF_vars(ReceiverLock)
    /\ WF_vars(ReceiverFlip)

-----------------------------------------------------------------------------
(* The program at its full size (10 spawns, 50 particles per trigger) for  *)
(* any strength and origin of the burst, in the time before the first      *)
(* expiry timer elapses.                                                   *)
Strengths == {0, 1000, MainStrength}
Origins == {<<0, 0>>, <<125000, 125000>>}

InitBurst ==
    /\ InitCommon
    /\ unit = <<>>
    /\ origin \in Origins
    /\ strength \in Strengths

NextBurst ==
    \/ MainSpawn(SpawnCount)
    \/ MainSpawnDone(SpawnCount)
    \/ ButtonPress(BurstCount)
    \/ ButtonPressPanic(BurstCount)
    \/ BeginFrame
    \/ Lock
    \/ CollideBody
    \/ RetainBody
    \/ GravityPush
    \/ GravityRun
    \/ IntegrateBody
    \/ DrawBody
    \/ EndPhase

SpecBurst == InitBurst /\ [][NextBurst]_vars

-----------------------------------------------------------------------------
(* Definitions shared by the properties *)
-----------------------------------------------------------------------------
(* main with the failures of the lock and of the one-shot channel.  A      *)
(* mutex is poisoned when a thread panics with its guard held: spawn_one   *)
(* returns a clone of the handle and entities and particles are public, so *)
(* a holder outside the frame loop can do that.  The receiver of a channel *)
(* is dropped when main returns and the runtime shuts down while the timer *)
(* task of the channel has not sent yet.                                   *)

\* a thread outside the frame loop panics while it holds the guard of h
PoisonedHandle(h) ==
    /\ pc \notin {"panicked", "exited"}
    /\ poison = {}
    /\ ~Locked(h)
    /\ poison' = {h}
    /\ UNCHANGED <<rng, parts, tasks, entities, particles, origin, strength, pc, idx, sub,
                   kept, guards, sink, spawned, triggers, frames, order, snap,
                   entry, unit>>

\* handle.lock().unwrap() on the main thread: lock() returns Err(PoisonError)
\* and unwrap panics
LockPanic ==
    /\ InLoop
    /\ sub = "lock"
    /\ ~Locked(Cur)
    /\ Cur \in poison
    /\ pc' = "panicked"
    /\ UNCHANGED <<rng, parts, tasks, entities, particles, origin, strength, idx, sub,
                   kept, guards, sink, spawned, triggers, frames, order, snap,
                   entry, poison, unit>>

\* part.lock().unwrap() in the receiver task: the task panics
RecvLockPanic(t) ==
    /\ Running
    /\ tasks[t].st = "sent"
    /\ ~Locked(tasks[t].part)
    /\ tasks[t].part \in poison
    /\ tasks' = [tasks EXCEPT ![t].st = "lockpanic"]
    /\ UNCHANGED <<rng, parts, entities, particles, origin, strength, pc, idx, sub,
                   kept, guards, sink, spawned, triggers, frames, order, snap,
                   entry, poison, unit>>

\* window.next() returns None: main returns and the runtime shuts down
MainExit ==
    /\ pc = "events"
    /\ pc' = "exited"
    /\ UNCHANGED <<rng, parts, tasks, entities, particles, origin, strength, idx, sub,
                   kept, guards, sink, spawned, triggers, frames, order, snap,
                   entry, poison, unit>>

\* the shutdown drops the receiver task, and rx with it, while the timer
\* task of the same channel is still alive
DropReceiver(t) ==
    /\ pc = "exited"
    /\ tasks[t].st = "sleep"
    /\ tasks' = [tasks EXCEPT ![t].st = "rxdropped"]
    /\ UNCHANGED <<rng, parts, entities, particles, origin, strength, pc, idx, sub,
                   kept, guards, sink, spawned, triggers, frames, order, snap,
                   entry, poison, unit>>

\* the shutdown drops the timer task before it sends
DropTimer(t) ==
    /\ pc = "exited"
    /\ tasks[t].st = "rxdropped"
    /\ tasks' = [tasks EXCEPT ![t].st = "dropped"]
    /\ UNCHANGED <<rng, parts, entities, particles, origin, strength, pc, idx, sub,
                   kept, guards, sink, spawned, triggers, frames, order, snap,
                   entry, poison, unit>>

\* tx.send(rc).unwrap() in a timer task that a worker is polling during the
\* shutdown: send returns Err(rc) and unwrap panics
TimerSendFail(t) ==
    /\ pc = "exited"
    /\ tasks[t].st = "rxdropped"
    /\ tasks' = [tasks EXCEPT ![t].st = "sendpanic"]
    /\ UNCHANGED <<rng, parts, entities, particles, origin, strength, pc, idx, sub,
                   kept, guards, sink, spawned, triggers, frames, order, snap,
                   entry, poison, unit>>

NextFault ==
    \/ Next
    \/ \E h \in Handles : PoisonedHandle(h)
    \/ LockPanic
    \/ \E t \in 1..Len(tasks) : RecvLockPanic(t)
    \/ MainExit
    \/ \E t \in 1..Len(tasks) : DropReceiver(t)
    \/ \E t \in 1..Len(tasks) : DropTimer(t)
    \/ \E t \in 1..Len(tasks) : TimerSendFail(t)

SpecFault == InitFair /\ [][NextFault]_vars

-----------------------------------------------------------------------------
(* Particle and Solid alone: one particle, built as spawn_one and trigger  *)
(* build it, receives push and run calls; its geometry is tested against   *)
(* one solid.                                                              *)
UnitPoints ==
    {<<x, y>> : x \in {-1000, 10000, 19500}, y \in {-2500, -2000, 10000, 29000, 29500}}

UnitVelocities == {<<0, 0>>, <<500, -500>>}

UnitForces == {<<0, Gravity>>, <<500, -500>>, <<-1000, 250>>}

UnitSolids ==
    {SolidNew(<<0, 0, 20000, 20000>>, SolidRadius),
     SolidNew(<<100000, 100000, 120000, 120000>>, SolidRadius)}

InitUnit ==
    /\ InitCommon
    /\ origin = <<0, 0>>
    /\ strength = MainStrength
    /\ \E point \in UnitPoints, velocity \in UnitVelocities, s \in UnitSolids :
          unit = [p |-> with_velocity(ParticleNew(point, rng), velocity),
                  s |-> s,
                  forces |-> <<>>,
                  runs |-> 0,
                  tests |-> 0,
                  g |-> <<0, 0, 0, 0>>,
                  hit |-> FALSE]

\* Particle::push
UnitPush(a) ==
    /\ Len(unit.forces) < MaxPush
    /\ unit.runs < MaxRuns
    /\ unit' = [unit EXCEPT !.p = push(@, a), !.forces = Append(@, a)]
    /\ UNCHANGED <<rng, parts, tasks, entities, particles, origin, strength, pc, idx, sub,
                   kept, guards, sink, spawned, triggers, frames, order, snap,
                   entry, poison>>

\* Particle::run
UnitRun ==
    /\ unit.runs < MaxRuns
    /\ unit' = [unit EXCEPT !.p = run(@), !.forces = <<>>, !.runs = @ + 1]
    /\ UNCHANGED <<rng, parts, tasks, entities, particles, origin, strength, pc, idx, sub,
                   kept, guards, sink, spawned, triggers, frames, order, snap,
                   entry, poison>>

\* Solid::is_colliding on the particle's get_geometry(), as the collision
\* pass of main calls it
UnitCollide ==
    /\ unit.tests = unit.runs
    /\ unit' = [unit EXCEPT !.g = get_geometry(unit.p),
                            !.hit = is_colliding(unit.s, get_geometry(unit.p)),
                            !.tests = @ + 1]
    /\ UNCHANGED <<rng, parts, tasks, entities, particles, origin, strength, pc, idx, sub,
                   kept, guards, sink, spawned, triggers, frames, order, snap,
                   entry, poison>>

NextUnit ==
    \/ \E a \in UnitForces : UnitPush(a)
    \/ UnitRun
    \/ UnitCollide

SpecUnit == InitUnit /\ [][NextUnit]_vars

-----------------------------------------------------------------------------
TasksOf(h) == {t \in 1..Len(tasks) : tasks[t].part = h}

BurstHandles == {tasks[t].part : t \in {u \in 1..Len(tasks) : tasks[u].by = "trigger"}}

RunReturns == pc = "gravity" /\ pc' # "gravity"

UpdateReturns == pc = "prune" /\ pc' # "prune"

-----------------------------------------------------------------------------
\* C1: a particle is created active, and in no step of any thread does the
\* active flag of a particle go from false to true.
C1_ActiveNeverSetAgain ==
    [][/\ \A h \in Handles : ~parts[h].active => ~parts'[h].active
       /\ \A h \in (1..Len(parts')) \ Handles : parts'[h].active]_vars

\* an inactive particle that a second expiry task of the same handle has
\* written again, and that a frame has passed over
C1_Witness ==
    \E h \in Inactive :
        /\ Cardinality({t \in TasksOf(h) : tasks[t].st = "done"}) = 2
        /\ frames >= 1

\* C2 as stated: when run() returns no handle of entities, and when update()
\* returns no handle of particles, refers to an inactive particle.
C2_NoInactiveAtReturn ==
    [][/\ RunReturns => \A i \in 1..Len(entities') : parts'[entities'[i]].active
       /\ UpdateReturns => \A i \in 1..Len(particles') : parts'[particles'[i]].active]_vars

\* C2 amended: when run() / update() returns, no handle of its collection
\* refers to a particle that was already inactive when that call was entered.
C2_NoStaleAtReturn ==
    [][/\ RunReturns => Range(entities') \cap snap.run = {}
       /\ UpdateReturns => Range(particles') \cap snap.update = {}]_vars

\* first frame, both calls have returned, and each was entered with an
\* inactive particle in its collection
C2_Witness ==
    /\ frames = 0
    /\ pc = "hdraw"
    /\ snap.run # {}
    /\ snap.update \cap BurstHandles # {}

\* C3 as stated: every particle has exactly one expiry event scheduled and
\* its active flag is written to false at most once.
C3_OneExpiryPerParticle ==
    \A h \in Handles :
        /\ Cardinality(TasksOf(h)) = 1
        /\ Cardinality({t \in TasksOf(h) : tasks[t].st = "done"}) <= 1

\* C4 as stated: when run() is about to push gravity or to integrate a
\* particle, or update() is about to integrate one, that particle is active.
C4_NoInactiveAdvanced ==
    (InLoop /\ pc \in {"gravity", "integrate"} /\ sub \in {"body", "body2"})
        => parts[Cur].active

\* C5: a particle that was inactive when a registry's update was entered is
\* not in that registry's collection once the update has pruned, and no draw
\* of that registry in that frame hands it to the renderer.
C5_PrunedByNextUpdate ==
    /\ pc \in {"gravity", "integrate", "prune", "hdraw", "edraw"}
          => Range(entities) \cap snap.run = {}
    /\ pc \in {"hdraw", "edraw"} => Range(particles) \cap snap.update = {}
    /\ \A i \in 1..Len(sink) :
          /\ sink[i].by = "hdraw" => sink[i].h \notin snap.run
          /\ sink[i].by = "edraw" => sink[i].h \notin snap.update

\* a frame is over in which both updates were entered with an expired
\* particle and both draws emitted the particles that were left
C5_Witness ==
    /\ pc = "events"
    /\ frames >= 1
    /\ snap.run # {}
    /\ snap.update \cap BurstHandles # {}
    /\ \E i \in 1..Len(sink) : sink[i].by = "hdraw"
    /\ \E i \in 1..Len(sink) : sink[i].by = "edraw"

\* C6: every expiry is scheduled with a delay of at most 5000 ms (spawn_one)
\* or of the fade delay of 500 ms (trigger), and under fair scheduling every
\* particle that exists becomes inactive.
MaxHandles == MaxSpawn + MaxTriggers * MaxBurst

Holders(h) ==
    (IF h \in guards THEN {0} ELSE {})
        \cup {t \in 1..Len(tasks) : tasks[t].st = "locked" /\ tasks[t].part = h}

C7_LockDiscipline ==
    /\ (InLoop /\ sub \in {"body", "body2"}) => Cur \in guards
    /\ \A h \in Handles : Cardinality(Holders(h)) <= 1
    /\ (pc = "gravity" /\ sub = "body2") => ~HeldByTask(Cur)

\* run() is between the push and the integration of a particle whose expiry
\* message has arrived: the receiver waits for the mutex
C7_Witness ==
    /\ pc = "gravity"
    /\ sub = "body2"
    /\ \E t \in TasksOf(Cur) : tasks[t].st = "sent"

\* C8: the main thread never holds two guards and never locks while it holds
\* one, and whoever waits for a mutex waits for a holder that can go on.
C8_NoLockHazard ==
    /\ Cardinality(guards) <= 1
    /\ (InLoop /\ sub = "lock") => guards = {}
    /\ (InLoop /\ sub = "lock" /\ Locked(Cur)) => ENABLED ReceiverFlip
    /\ \A t \in 1..Len(tasks) :
          (tasks[t].st = "sent" /\ Locked(tasks[t].part))
              => ENABLED (ReceiverFlip \/ CollideBody \/ RetainBody \/ GravityPush
                          \/ GravityRun \/ IntegrateBody \/ DrawBody)

\* update() holds the guard of a handle that is in both collections while
\* one receiver of that particle waits for the mutex and another has its
\* message still to come
C8_Witness ==
    /\ pc = "integrate"
    /\ sub = "body"
    /\ Cur \in Range(entities)
    /\ \E t \in TasksOf(Cur) : tasks[t].st = "sent"
    /\ \E t \in TasksOf(Cur) : tasks[t].st = "sleep"

\* phase a has been entered in this frame before phase b
Precedes(a, b) ==
    \A j \in 1..Len(order) :
        order[j] = b => \E i \in 1..(j - 1) : order[i] = a

\* C9 as stated: collision, then integration, then pruning, then draw, for
\* each registry.
C9_IntegrateBeforePrune ==
    /\ Precedes("collide", "gravity")
    /\ Precedes("collide", "integrate")
    /\ Precedes("gravity", "retain")
    /\ Precedes("integrate", "prune")
    /\ Precedes("retain", "hdraw")
    /\ Precedes("prune", "edraw")

\* C9 amended: the swarm is pruned before it is integrated.
C9_FrameOrder ==
    /\ Precedes("collide", "gravity")
    /\ Precedes("collide", "integrate")
    /\ Precedes("retain", "gravity")
    /\ Precedes("integrate", "prune")
    /\ Precedes("retain", "hdraw")
    /\ Precedes("prune", "edraw")

\* a frame that went through every phase with particles in both registries
C9_Witness ==
    /\ Len(order) = 7
    /\ \E i \in 1..Len(sink) : sink[i].by = "hdraw"
    /\ pc = "edraw"
    /\ InLoop

\* C10: a trigger() on a burst of strength > 0 appends 50 handles of new
\* particles, active, at the origin, with both velocity components within
\* [-strength, strength], and leaves the earlier handles and particles as
\* they were.
C10_TriggerAppendsFifty ==
    [][(triggers' = triggers + 1 /\ strength > 0) =>
         LET old == Len(particles) IN
         /\ Len(particles') = old + BurstCount
         /\ SubSeq(particles', 1, old) = particles
         /\ SubSeq(parts', 1, Len(parts)) = parts
         /\ Cardinality({particles'[i] : i \in (old + 1)..Len(particles')}) = BurstCount
         /\ \A i \in (old + 1)..Len(particles') :
               LET rc == parts'[particles'[i]] IN
               /\ particles'[i] \notin Handles
               /\ rc.active
               /\ rc.point = origin
               /\ rc.velocity[1] >= -strength /\ rc.velocity[1] <= strength
               /\ rc.velocity[2] >= -strength /\ rc.velocity[2] <= strength]_vars

\* a second trigger() on a burst away from (0,0) that still holds the 50
\* particles of the first
C10_Witness ==
    /\ triggers = 2
    /\ strength > 0
    /\ origin # <<0, 0>>
    /\ Len(particles) = 2 * BurstCount

\* C11 as stated: on a burst of strength 0 the main thread never panics, and
\* every particle trigger() created has velocity (0,0) and, also after
\* update(), is at the origin.
C11_ZeroStrengthTrigger ==
    strength = 0 =>
        /\ pc # "panicked"
        /\ \A i \in 1..Len(particles) :
              /\ parts[particles[i]].velocity = <<0, 0>>
              /\ parts[particles[i]].point = origin

SwarmHandles == {tasks[t].part : t \in {u \in 1..Len(tasks) : tasks[u].by = "spawn_one"}}

RECURSIVE SumForces(_)
SumForces(fs) ==
    IF fs = <<>> THEN <<0, 0>>
    ELSE LET rest == SumForces(Tail(fs))
         IN <<fs[1][1] + rest[1], fs[1][2] + rest[2]>>

\* C13: a push adds its force to the pending force and changes nothing else;
\* a run adds the pending force (the sum of the pushes since the last run)
\* to the velocity, then the new velocity to the point, and leaves the
\* pending force (0,0); with zero velocity and one pushed force f the
\* result is velocity f and point = old point + f.
C13_IntegrateStep ==
    [][/\ Len(unit'.forces) = Len(unit.forces) + 1 =>
             LET a == unit'.forces[Len(unit'.forces)]
             IN unit'.p = [unit.p EXCEPT !.acceleration =
                              <<unit.p.acceleration[1] + a[1],
                                unit.p.acceleration[2] + a[2]>>]
       /\ unit'.runs = unit.runs + 1 =>
             LET f == SumForces(unit.forces)
                 old == unit.p
                 new == unit'.p
             IN /\ new.velocity = <<old.velocity[1] + f[1], old.velocity[2] + f[2]>>
                /\ new.point = <<old.point[1] + new.velocity[1],
                                 old.point[2] + new.velocity[2]>>
                /\ new.acceleration = <<0, 0>>
                /\ (old.velocity = <<0, 0>> /\ Len(unit.forces) = 1) =>
                      /\ new.velocity = unit.forces[1]
                      /\ new.point = <<old.point[1] + unit.forces[1][1],
                                       old.point[2] + unit.forces[1][2]>>]_vars

\* a particle that started at rest has run once after one push, and a
\* second run came after two pushes
C13_Witness ==
    /\ unit.runs = 2
    /\ unit.forces = <<>>
    /\ unit.p.acceleration = <<0, 0>>
    /\ unit.p.velocity = <<500, -304>>
    /\ unit.p.point = <<10500, 9794>>

\* C14: is_colliding(g) is true exactly when g[0] >= x0, g[2] <= x2,
\* g[1] >= y0 - threshold and g[3] <= y1 + line radius; (10,10,11,11) is
\* inside Solid (0,0,20,20) and outside Solid (100,100,120,120); the call
\* changes neither the solid nor the particle.
C14_CollisionTest ==
    [][unit'.tests = unit.tests + 1 =>
         LET g == unit'.g
             sg == unit.s.geometry
         IN /\ unit'.hit <=> (/\ g[1] >= sg[1]
                              /\ g[3] <= sg[3]
                              /\ g[2] >= sg[2] - Threshold
                              /\ g[4] <= sg[4] + SolidRadius)
            /\ (g = <<10000, 10000, 11000, 11000>> /\ sg = <<0, 0, 20000, 20000>>)
                  => unit'.hit
            /\ (g = <<10000, 10000, 11000, 11000>>
                /\ sg = <<100000, 100000, 120000, 120000>>) => ~unit'.hit
            /\ unit'.p = unit.p
            /\ unit'.s = unit.s]_vars

\* a geometry whose top is exactly threshold above the solid's top edge was
\* tested and found inside
C14_Witness ==
    /\ unit.tests = 1
    /\ unit.hit
    /\ unit.g = <<10000, -2000, 11000, -1000>>
    /\ unit.s.geometry = <<0, 0, 20000, 20000>>

\* C15 as stated: a poisoned lock met by GravityHandler::run,
\* ExplodingParticles::update, a draw or the collision pass never aborts
\* the process.
C15_PoisonedLockIsLocal == poison # {} => pc # "panicked"

\* C16 as stated: a send on a channel whose receiver is dropped never makes
\* the timer task panic.
C16_FailedSendIsNoOp == \A t \in 1..Len(tasks) : tasks[t].st # "sendpanic"

\* C17 as stated: when run() returns, every member of entities whose
\* geometry tested positive against solid or sol2 in the collision pass of
\* the frame has vertical velocity 0.098, and a downward velocity has not
\* become an upward one or the reverse.
C17_CollisionCancelsVertical ==
    [][RunReturns =>
         \A i \in 1..Len(entities') :
            LET h == entities'[i]
                geometry == get_geometry(entry[h])
                vy == entry[h].velocity[2]
            IN (is_colliding(solid, geometry) \/ is_colliding(sol2, geometry)) =>
                  /\ parts'[h].velocity[2] = Gravity
                  /\ ~(vy > 0 /\ parts'[h].velocity[2] < 0)
                  /\ ~(vy < 0 /\ parts'[h].velocity[2] > Gravity)]_vars

Orphan(h) == h \notin Range(entities) \cup Range(particles)

\* C18: a receiver task whose particle is in no collection any more can
\* take the particle's mutex unless another receiver task holds it (the
\* main thread never does); when it writes, the flag of that particle
\* becomes false and nothing else changes: entities, particles and the
\* other particles stay as they are and the main thread does not panic.
C18_OrphanExpiry ==
    /\ [](\A t \in 1..Len(tasks) :
            (tasks[t].st = "sent" /\ Orphan(tasks[t].part)) =>
               /\ tasks[t].part \notin guards
               /\ (ENABLED RecvLock(t)) \/ HeldByTask(tasks[t].part))
    /\ [][\A t \in 1..Len(tasks) :
            (tasks[t].st = "locked" /\ tasks'[t].st = "done" /\ Orphan(tasks[t].part)) =>
               /\ parts' = [parts EXCEPT ![tasks[t].part].active = FALSE]
               /\ entities' = entities
               /\ particles' = particles
               /\ kept' = kept
               /\ pc' = pc]_vars

\* a receiver task holds the mutex of a particle that was pruned from both
\* collections after another task of the same particle had deactivated it
C18_Witness ==
    \E t \in 1..Len(tasks) :
       /\ tasks[t].st = "locked"
       /\ Orphan(tasks[t].part)
       /\ ~parts[tasks[t].part].active
       /\ \E u \in TasksOf(tasks[t].part) : tasks[u].st = "done"

\* C19 as stated: no handle occurs twice in entities, and the particle that
\* update() is about to integrate is not a member of entities, all of whose
\* members run() has integrated earlier in the same frame.
C19_OncePerFrame ==
    /\ \A i, j \in 1..Len(entities) : entities[i] = entities[j] => i = j
    /\ (pc = "integrate" /\ InLoop /\ sub = "body") => Cur \notin Range(entities)

\* a is b with some of its elements left out
RECURSIVE IsSubseq(_, _)
IsSubseq(a, b) ==
    IF a = <<>> THEN TRUE
    ELSE IF b = <<>> THEN FALSE
    ELSE IF a[1] = b[1] THEN IsSubseq(Tail(a), Tail(b))
    ELSE IsSubseq(a, Tail(b))

StillActive(h) == parts[h].active

\* C20: each retain check keeps the handle, behind the handles kept so far,
\* when it reads the particle active and drops it when it reads it
\* inactive; the collection after the retain is the old one with elements
\* left out, the handles that are still active are all there in their old
\* order, and a handle that is gone is inactive; run() changes only
\* entities, update() only particles, and neither gains a handle.
C20_RetainOnlyRemovesInactive ==
    [][/\ (pc \in {"retain", "prune"} /\ sub = "body" /\ idx' = idx + 1) =>
             kept' = IF parts[Cur].active THEN kept \o <<Cur>> ELSE kept
       /\ (pc \in {"retain", "prune"} /\ pc' # pc) =>
             LET old == Coll(pc)
                 new == IF pc = "retain" THEN entities' ELSE particles'
             IN /\ IsSubseq(new, old)
                /\ SelectSeq(new, StillActive) = SelectSeq(old, StillActive)
                /\ Range(old) \ Range(new) \subseteq Inactive
       /\ pc \in {"retain", "gravity"} =>
             /\ Range(entities') \subseteq Range(entities)
             /\ Len(entities') <= Len(entities)
             /\ particles' = particles
       /\ pc \in {"integrate", "prune"} =>
             /\ Range(particles') \subseteq Range(particles)
             /\ Len(particles') <= Len(particles)
             /\ entities' = entities]_vars

\* the retain of the first run() has dropped a particle that was inactive
\* and kept two or more handles
C20_Witness ==
    /\ pc = "gravity"
    /\ idx = 1
    /\ frames = 0
    /\ Len(entities) >= 2
    /\ \E h \in snap.run : h \notin Range(entities)
    /\ \E i \in 1..Len(entities) : parts[entities[i]].active
====
